---- MODULE Spec2Model ----
(***************************************************************************)
(* Model of the metric table renderers of chihung1024/back_test:           *)
(*   public/js/scanner/scanner_ui.js        renderScanTable                *)
(*   unnamed/part_000                       renderScanTable (second copy)  *)
(*   public/js/backtester/backtester_ui.js  renderSummaryTable             *)
(*                                                                         *)
(* Strings are kept as the code writes them.  Characters outside ASCII are *)
(* spelled as their JavaScript escape (the six characters \uXXXX), since   *)
(* a TLA+ string literal is ASCII only.                                    *)
(*                                                                         *)
(* A JavaScript number is modelled as a decimal with five fractional       *)
(* digits, n / 10^5, together with the sign e of (double - decimal), the   *)
(* representation error of the IEEE double that the decimal literal        *)
(* denotes, and the sign e100 of (fl(double * 100) - decimal * 100).       *)
(* toFixed rounds the double, so a decimal tie is decided by that sign.    *)
(***************************************************************************)
EXTENDS Integers, Sequences, FiniteSets, TLC

VARIABLES scanTable, summaryTable, results, data, benchmark,
          scanArgs, summaryArgs, scanThrew, summaryThrew, overwrote, fmtCall

vars == <<scanTable, summaryTable, results, data, benchmark,
          scanArgs, summaryArgs, scanThrew, summaryThrew, overwrote, fmtCall>>

\* Largest number of rows handed to one renderScanTable call.
MaxResults == 2

\* Largest number of entries handed to one renderSummaryTable call.
MaxData == 2

\* One unit of a modelled number is 10^-5.
Scale == 10 ^ 5

Abs(x) == IF x < 0 THEN -x ELSE x

(***************************************************************************)
(* JavaScript values                                                       *)
(***************************************************************************)
Num(n, e, e100) == [n |-> n, e |-> e, e100 |-> e100, t |-> "number"]
NaN       == [n |-> 0, e |-> 0, e100 |-> 0, t |-> "NaN"]
PosInf    == [n |-> 0, e |-> 0, e100 |-> 0, t |-> "Infinity"]
NegInf    == [n |-> 0, e |-> 0, e100 |-> 0, t |-> "-Infinity"]
Null      == [n |-> 0, e |-> 0, e100 |-> 0, t |-> "null"]
Undefined == [n |-> 0, e |-> 0, e100 |-> 0, t |-> "undefined"]

\* The finite numbers of the model: 0, 0.1534, 1.23456, 0.125, -0.125,
\* 0.03125, 1.005, 0.00015, -0.00048, 0.99999, 12.34567, -1.23456, 2.5.
FiniteValues ==
  { Num(0, 0, 0),        Num(15340, 1, 1),     Num(123456, 1, 1),
    Num(12500, 0, 0),    Num(-12500, 0, 0),    Num(3125, 0, 0),
    Num(100500, -1, -1), Num(15, -1, -1),      Num(-48, -1, -1),
    Num(99999, 1, 1),    Num(1234567, 1, 1),   Num(-123456, -1, -1),
    Num(250000, 0, 0) }

NonFiniteValues == {NaN, PosInf, NegInf}

Values == FiniteValues \cup NonFiniteValues \cup {Null, Undefined}

\* What a function call yields: a string, or a thrown TypeError.
Ret(s) == [throws |-> FALSE, text |-> s]
Throw  == [throws |-> TRUE,  text |-> "TypeError"]

(***************************************************************************)
(* JavaScript built-ins the formatters use                                 *)
(***************************************************************************)
\* k written with exactly d decimal digits, zero padded on the left.
RECURSIVE Digits(_, _)
Digits(k, d) == IF d = 0 THEN "" ELSE Digits(k \div 10, d - 1) \o ToString(k % 10)

\* The integer r written as r / 10^d with exactly d decimals.
Decimal(r, d) == ToString(r \div (10 ^ d)) \o "." \o Digits(r % (10 ^ d), d)

\* The integer nearest to a / unit for the double whose decimal is a: on a
\* decimal tie the double's own error ea decides, and an exact tie (ea = 0)
\* goes to the larger integer.
RoundNearest(a, unit, ea) ==
  IF 2 * (a % unit) > unit \/ (2 * (a % unit) = unit /\ ea >= 0)
  THEN a \div unit + 1
  ELSE a \div unit

\* The global isFinite(v): v is converted to a number first, so null is 0
\* and undefined is NaN.
isFinite_notNull(v) == v.t # "null"
isFinite(v) == v.t \in {"number", "null"}

\* v * 100: null converts to 0, undefined to NaN.
Mul100(v) ==
  CASE v.t = "number"    -> Num(v.n * 100, v.e100, 0)
    [] v.t = "null"      -> Num(0, 0, 0)
    [] v.t = "undefined" -> NaN
    [] OTHER             -> v

\* Number.prototype.toFixed(d) of a finite number: the integer r for which
\* r / 10^d is nearest to the number, the larger one on an exact tie,
\* written with d decimals after the sign of the number.
FixedDigits_truncate(v, d) ==
  (IF v.n < 0 THEN "-" ELSE "")
    \o Decimal(Abs(v.n) \div (Scale \div (10 ^ d)), d)
FixedDigits(v, d) ==
  (IF v.n < 0 THEN "-" ELSE "")
    \o Decimal(RoundNearest(Abs(v.n), Scale \div (10 ^ d),
                            IF v.n < 0 THEN -v.e ELSE v.e), d)

\* v.toFixed(d): reading a property of null or undefined throws a TypeError.
toFixed(v, d) ==
  CASE v.t \in {"null", "undefined"} -> Throw
    [] v.t = "number"                -> Ret(FixedDigits(v, d))
    [] OTHER                         -> Ret(v.t)

\* `${x}%`: the template literal around a call that may have thrown.
Percent(r) == IF r.throws THEN r ELSE Ret(r.text \o "%")

(***************************************************************************)
(* The metric and formatter tables                                         *)
(***************************************************************************)
\* scanner_ui.js
METRICS ==
  << [key |-> "cagr",          label |-> "\\u5E74\\u5316\\u5831\\u916C\\u7387 (CAGR)"],
     [key |-> "volatility",    label |-> "\\u5E74\\u5316\\u6CE2\\u52D5\\u7387"],
     [key |-> "mdd",           label |-> "\\u6700\\u5927\\u56DE\\u64A4 (MDD)"],
     [key |-> "sharpe_ratio",  label |-> "\\u590F\\u666E\\u6BD4\\u7387"],
     [key |-> "sortino_ratio", label |-> "\\u7D22\\u63D0\\u8AFE\\u6BD4\\u7387"],
     [key |-> "beta",          label |-> "Beta (\\u03B2)"],
     [key |-> "alpha",         label |-> "Alpha (\\u03B1)"],
     [key |-> "custom_score",  label |-> "\\u81EA\\u8A02"] >>

\* backtester_ui.js
metrics ==
  << [key |-> "cagr",          label |-> "\\u5E74\\u5316\\u5831\\u916C\\u7387 (CAGR)"],
     [key |-> "volatility",    label |-> "\\u5E74\\u5316\\u6CE2\\u52D5\\u7387"],
     [key |-> "mdd",           label |-> "\\u6700\\u5927\\u56DE\\u64A4 (MDD)"],
     [key |-> "sharpe_ratio",  label |-> "\\u590F\\u666E\\u6BD4\\u7387"],
     [key |-> "sortino_ratio", label |-> "\\u7D22\\u63D0\\u8AFE\\u6BD4\\u7387"],
     [key |-> "beta",          label |-> "Beta (\\u03B2)"],
     [key |-> "alpha",         label |-> "Alpha (\\u03B1)"],
     [key |-> "custom_score",  label |-> "\\u81EA\\u8A02"] >>

\* unnamed/part_000
metrics_part000 ==
  << [key |-> "cagr",          label |-> "\\u5E74\\u5316\\u5831\\u916C\\u7387 (CAGR)"],
     [key |-> "volatility",    label |-> "\\u5E74\\u5316\\u6CE2\\u52D5\\u7387"],
     [key |-> "mdd",           label |-> "\\u6700\\u5927\\u56DE\\u64A4 (MDD)"],
     [key |-> "sharpe_ratio",  label |-> "\\u590F\\u666E\\u6BD4\\u7387"],
     [key |-> "sortino_ratio", label |-> "\\u7D22\\u63D0\\u8AFE\\u6BD4\\u7387"],
     [key |-> "beta",          label |-> "Beta (\\u03B2)"],
     [key |-> "alpha",         label |-> "Alpha (\\u03B1)"],
     [key |-> "custom_score",  label |-> "\\u81EA\\u8A02"] >>

KeySet == {METRICS[j].key : j \in 1..Len(METRICS)}

\* scanner_ui.js
FMT(key, v) ==
  CASE key = "cagr"          -> Percent(toFixed(Mul100(v), 2))
    [] key = "volatility"    -> Percent(toFixed(Mul100(v), 2))
    [] key = "mdd"           -> Percent(toFixed(Mul100(v), 2))
    [] key = "sharpe_ratio"  -> IF isFinite(v) THEN toFixed(v, 2) ELSE Ret("N/A")
    [] key = "sortino_ratio" -> IF isFinite(v) THEN toFixed(v, 2) ELSE Ret("N/A")
    [] key = "beta"          -> IF v # Null THEN toFixed(v, 2) ELSE Ret("N/A")
    [] key = "alpha"         -> IF v # Null THEN Percent(toFixed(Mul100(v), 2))
                                            ELSE Ret("N/A")
    [] key = "custom_score"  -> IF isFinite(v) THEN toFixed(v, 4) ELSE Ret("N/A")

\* backtester_ui.js
format(key, v) ==
  CASE key = "cagr"          -> Percent(toFixed(Mul100(v), 2))
    [] key = "volatility"    -> Percent(toFixed(Mul100(v), 2))
    [] key = "mdd"           -> Percent(toFixed(Mul100(v), 2))
    [] key = "sharpe_ratio"  -> IF isFinite(v) THEN toFixed(v, 2) ELSE Ret("N/A")
    [] key = "sortino_ratio" -> IF isFinite(v) THEN toFixed(v, 2) ELSE Ret("N/A")
    [] key = "beta"          -> IF v # Null THEN toFixed(v, 2) ELSE Ret("N/A")
    [] key = "alpha"         -> IF v # Null THEN Percent(toFixed(Mul100(v), 2))
                                            ELSE Ret("N/A")
    [] key = "custom_score"  -> IF isFinite(v) THEN toFixed(v, 4) ELSE Ret("N/A")

\* unnamed/part_000
fmt(key, v) ==
  CASE key = "cagr"          -> Percent(toFixed(Mul100(v), 2))
    [] key = "volatility"    -> Percent(toFixed(Mul100(v), 2))
    [] key = "mdd"           -> Percent(toFixed(Mul100(v), 2))
    [] key = "sharpe_ratio"  -> IF isFinite(v) THEN toFixed(v, 2) ELSE Ret("N/A")
    [] key = "sortino_ratio" -> IF isFinite(v) THEN toFixed(v, 2) ELSE Ret("N/A")
    [] key = "beta"          -> IF v # Null THEN toFixed(v, 2) ELSE Ret("N/A")
    [] key = "alpha"         -> IF v # Null THEN Percent(toFixed(Mul100(v), 2))
                                            ELSE Ret("N/A")
    [] key = "custom_score"  -> IF isFinite(v) THEN toFixed(v, 4) ELSE Ret("N/A")

(***************************************************************************)
(* Inputs: the rows the upstream computation hands to the renderers        *)
(***************************************************************************)
Str(s) == [t |-> "string", s |-> s]
NoteUndefined == [t |-> "undefined", s |-> ""]
NoteNull == [t |-> "null", s |-> ""]

MetricsOf(c, v, md, sh, so, b, a, cs) ==
  [k \in KeySet |->
     CASE k = "cagr" -> c  [] k = "volatility" -> v  [] k = "mdd" -> md
       [] k = "sharpe_ratio" -> sh  [] k = "sortino_ratio" -> so
       [] k = "beta" -> b  [] k = "alpha" -> a  [] k = "custom_score" -> cs]

\* Every metric finite.
AllFinite ==
  MetricsOf(Num(15340, 1, 1), Num(12500, 0, 0), Num(-12500, 0, 0),
            Num(123456, 1, 1), Num(100500, -1, -1), Num(99999, 1, 1),
            Num(3125, 0, 0), Num(123456, 1, 1))

\* Keys absent, non-finite numbers, and null where the backend documents it.
Anomalous ==
  MetricsOf(Undefined, NaN, Num(-48, -1, -1), PosInf, Undefined,
            Null, Null, NegInf)

\* null in a metric whose formatter tests isFinite.
NullSharpe ==
  MetricsOf(Null, Num(250000, 0, 0), NegInf, Null, Num(15, -1, -1),
            Num(0, 0, 0), Num(1234567, 1, 1), Num(-123456, -1, -1))

\* beta never computed, null in the last metric.
NoBeta ==
  MetricsOf(PosInf, Num(15, -1, -1), NaN, NaN, NegInf,
            Undefined, Undefined, Null)

\* The absent benchmark argument.
NoBenchmark == [defined |-> FALSE, name |-> "", m |-> [k \in KeySet |-> Undefined]]

ScanRowPool ==
  { [m |-> AllFinite, ticker |-> "AAPL", note |-> Str("*")],
    [m |-> Anomalous, ticker |-> "MSFT", note |-> NoteUndefined],
    [m |-> NullSharpe, ticker |-> "TSLA", note |-> NoteNull],
    [m |-> NoBeta, ticker |-> "NVDA", note |-> Str("")] }

\* Keys absent where no formatter reads a property of the value.
Sparse ==
  MetricsOf(Undefined, NaN, Num(-48, -1, -1), Undefined, PosInf,
            Null, Null, Undefined)

PortfolioPool ==
  { [defined |-> TRUE, name |-> "Portfolio A", m |-> AllFinite],
    [defined |-> TRUE, name |-> "Portfolio B", m |-> NoBeta] }

BenchmarkPool ==
  { NoBenchmark,
    [defined |-> TRUE, name |-> "SPY", m |-> Sparse] }

ScanInputs == UNION {[1..k -> ScanRowPool] : k \in 0..MaxResults}
DataInputs == UNION {[1..k -> PortfolioPool] : k \in 0..MaxData}

(***************************************************************************)
(* The table element (the DOM collaborator the renderers write into)       *)
(***************************************************************************)
\* A cell as its outerHTML describes it.
Cell(tag, cls, sortKey, text) ==
  [text |-> text, tag |-> tag, cls |-> cls, sortKey |-> sortKey]

\* What row.insertCell() has inserted before outerHTML is assigned.
EmptyCell == Cell("td", "", "", "")

\* A table: the rows of its thead and the rows of each of its tbodies.
EmptyTable == [thead |-> <<>>, tbodies |-> <<>>]

\* table.innerHTML = ''
ClearTable_keep(tbl) == tbl
ClearTable(tbl) == EmptyTable

\* table.createTHead().insertRow(), filled with the cells of row
InsertHeadRow(tbl, row) == [tbl EXCEPT !.thead = Append(@, row)]

\* table.createTBody(), filled with rows
InsertBody(tbl, rows) == [tbl EXCEPT !.tbodies = Append(@, rows)]

(***************************************************************************)
(* renderScanTable, scanner_ui.js                                          *)
(***************************************************************************)
\* r.note || ''
NoteOrEmpty_raw(note) == IF note.t = "string" THEN note.s ELSE note.t
NoteOrEmpty(note) == IF note.t = "string" /\ note.s # "" THEN note.s ELSE ""

\* The header row: the corner cell, then one th per metric.
ScanHeadRow ==
  [className |-> "bg-gray-100 text-sm font-medium",
   cells |-> <<Cell("th", "px-4 py-2 sortable", "ticker", "Ticker")>> \o
             [j \in 1..Len(METRICS) |->
                Cell("th", "px-4 py-2 sortable", METRICS[j].key, METRICS[j].label)]]

\* A body cell with its text.
ScanCell(text) == Cell("td", "px-4 py-1 text-center", "", text)

\* val !== undefined ? FMT[m.key](val) : '\u2014'
ScanCellText(key, val) ==
  IF val # Undefined THEN FMT(key, val) ELSE Ret("\\u2014")

\* METRICS.forEach over one row, from metric j on: the cell is inserted,
\* then its text is computed (out); a throw leaves the inserted cell empty
\* and ends the call.
RECURSIVE ScanCells(_, _, _)
ScanCellsStep(r, j, cells, out) ==
  IF out.throws
  THEN [cells |-> Append(cells, EmptyCell), threw |-> TRUE]
  ELSE ScanCells(r, j + 1, Append(cells, ScanCell(out.text)))
ScanCells(r, j, cells) ==
  IF j > Len(METRICS) THEN [cells |-> cells, threw |-> FALSE]
  ELSE ScanCellsStep(r, j, cells,
                     ScanCellText(METRICS[j].key, r.m[METRICS[j].key]))

\* The first cell of a body row: ticker, then the note.
ScanFirstCell(r) ==
  Cell("td", "px-4 py-1 font-semibold", "", r.ticker \o NoteOrEmpty(r.note))

\* results.forEach, from row i on; c is what METRICS.forEach made of row i.
RECURSIVE ScanBody(_, _, _)
ScanBodyStep(rs, i, rows, c) ==
  IF c.threw
  THEN [rows |-> Append(rows, [className |-> "", cells |-> c.cells]),
        threw |-> TRUE]
  ELSE ScanBody(rs, i + 1, Append(rows, [className |-> "", cells |-> c.cells]))
ScanBody(rs, i, rows) ==
  IF i > Len(rs) THEN [rows |-> rows, threw |-> FALSE]
  ELSE ScanBodyStep(rs, i, rows, ScanCells(rs[i], 1, <<ScanFirstCell(rs[i])>>))

\* What a call leaves: the table with the new body, whether the call threw,
\* and the array passed as it is after the call.
ScanOutcome(tbl, body, rs) ==
  [results |-> rs, tbl |-> InsertBody(tbl, body.rows), threw |-> body.threw]

\* renderScanTable(results) on the table tbl.
renderScanTable_sorting(tbl, rs) ==
  ScanOutcome(InsertHeadRow(ClearTable(tbl), ScanHeadRow),
              ScanBody([i \in 1..Len(rs) |-> rs[Len(rs) + 1 - i]], 1, <<>>),
              [i \in 1..Len(rs) |-> rs[Len(rs) + 1 - i]])
renderScanTable(tbl, rs) ==
  ScanOutcome(InsertHeadRow(ClearTable(tbl), ScanHeadRow),
              ScanBody(rs, 1, <<>>), rs)

(***************************************************************************)
(* renderScanTable, unnamed/part_000                                       *)
(***************************************************************************)
ScanHeadRow_part000 ==
  [className |-> "bg-gray-100 text-sm font-medium",
   cells |-> <<Cell("th", "px-4 py-2 sortable", "ticker", "Ticker")>> \o
             [j \in 1..Len(metrics_part000) |->
                Cell("th", "px-4 py-2 sortable",
                     metrics_part000[j].key, metrics_part000[j].label)]]

ScanCell_part000(text) == Cell("td", "px-4 py-1 text-center", "", text)

\* val!==undefined ? fmt[m.key](val) : '\u2014'
ScanCellText_part000(key, val) ==
  IF val # Undefined THEN fmt(key, val) ELSE Ret("\\u2014")

RECURSIVE ScanCells_part000(_, _, _)
ScanCellsStep_part000(r, j, cells, out) ==
  IF out.throws
  THEN [cells |-> Append(cells, EmptyCell), threw |-> TRUE]
  ELSE ScanCells_part000(r, j + 1, Append(cells, ScanCell_part000(out.text)))
ScanCells_part000(r, j, cells) ==
  IF j > Len(metrics_part000) THEN [cells |-> cells, threw |-> FALSE]
  ELSE ScanCellsStep_part000(r, j, cells,
         ScanCellText_part000(metrics_part000[j].key,
                              r.m[metrics_part000[j].key]))

ScanFirstCell_part000(r) ==
  Cell("td", "px-4 py-1 font-semibold", "", r.ticker \o NoteOrEmpty(r.note))

RECURSIVE ScanBody_part000(_, _, _)
ScanBodyStep_part000(rs, i, rows, c) ==
  IF c.threw
  THEN [rows |-> Append(rows, [className |-> "", cells |-> c.cells]),
        threw |-> TRUE]
  ELSE ScanBody_part000(rs, i + 1,
                        Append(rows, [className |-> "", cells |-> c.cells]))
ScanBody_part000(rs, i, rows) ==
  IF i > Len(rs) THEN [rows |-> rows, threw |-> FALSE]
  ELSE ScanBodyStep_part000(rs, i, rows,
         ScanCells_part000(rs[i], 1, <<ScanFirstCell_part000(rs[i])>>))

renderScanTable_part000(tbl, rs) ==
  ScanOutcome(InsertHeadRow(ClearTable(tbl), ScanHeadRow_part000),
              ScanBody_part000(rs, 1, <<>>), rs)

(***************************************************************************)
(* renderSummaryTable, backtester_ui.js                                    *)
(***************************************************************************)
\* if (benchmark): an object is truthy, undefined and null are not.
Truthy(b) == b.defined

\* The header row: the corner cell, one th per entry, then the benchmark.
SummaryHeadRow(d, b) ==
  [className |-> "",
   cells |-> <<Cell("th", "px-4 py-2", "", "\\u6307\\u6A19")>> \o
             [i \in 1..Len(d) |-> Cell("th", "px-4 py-2 text-center", "", d[i].name)] \o
             (IF Truthy(b) THEN <<Cell("th", "px-4 py-2 text-center", "", b.name)>>
                           ELSE <<>>)]

\* A body cell with its text.
SummaryCell(text) == Cell("td", "px-4 py-1 text-center", "", text)

\* data.forEach inside one metric row, from entry i on; out is
\* format[m.key](p[m.key]).
RECURSIVE SummaryCells(_, _, _, _)
SummaryCellsStep(key, d, i, cells, out) ==
  IF out.throws
  THEN [cells |-> Append(cells, EmptyCell), threw |-> TRUE]
  ELSE SummaryCells(key, d, i + 1, Append(cells, SummaryCell(out.text)))
SummaryCells(key, d, i, cells) ==
  IF i > Len(d) THEN [cells |-> cells, threw |-> FALSE]
  ELSE SummaryCellsStep(key, d, i, cells, format(key, d[i].m[key]))

\* if (benchmark) { ... } after the entries' cells c of one metric row; out
\* is format[m.key](benchmark[m.key]).
SummaryBenchmarkCell(c, b, out) ==
  IF c.threw \/ ~Truthy(b) THEN c
  ELSE IF out.throws
       THEN [cells |-> Append(c.cells, EmptyCell), threw |-> TRUE]
       ELSE [cells |-> Append(c.cells, SummaryCell(out.text)), threw |-> FALSE]

\* One metric row: the label, the entries' cells, then the benchmark's.
SummaryRow(j, d, b) ==
  SummaryBenchmarkCell(
    SummaryCells(metrics[j].key, d, 1,
                 <<Cell("td", "px-4 py-1 font-medium", "", metrics[j].label)>>),
    b, format(metrics[j].key, b.m[metrics[j].key]))

\* metrics.forEach, from metric j on; c is what was made of row j.
RECURSIVE SummaryBody(_, _, _, _)
SummaryBodyStep(j, d, b, rows, c) ==
  IF c.threw
  THEN [rows |-> Append(rows, [className |-> "", cells |-> c.cells]),
        threw |-> TRUE]
  ELSE SummaryBody(j + 1, d, b,
                   Append(rows, [className |-> "", cells |-> c.cells]))
SummaryBody(j, d, b, rows) ==
  IF j > Len(metrics) THEN [rows |-> rows, threw |-> FALSE]
  ELSE SummaryBodyStep(j, d, b, rows, SummaryRow(j, d, b))

\* What a call leaves: the table with the new body, whether the call threw,
\* and the arguments as they are after the call.
SummaryOutcome(tbl, body, d, b) ==
  [data |-> d, benchmark |-> b,
   tbl |-> InsertBody(tbl, body.rows), threw |-> body.threw]

\* renderSummaryTable(data, benchmark) on the table tbl.
renderSummaryTable(tbl, d, b) ==
  SummaryOutcome(InsertHeadRow(ClearTable(tbl), SummaryHeadRow(d, b)),
                 SummaryBody(1, d, b, <<>>), d, b)

(***************************************************************************)
(* The state machine: calls of the renderers on the page's two tables      *)
(*   scanTable, summaryTable   dom.scanSummaryTable, dom.summaryTable      *)
(*   results, data, benchmark  the caller's arguments, as they are after   *)
(*                             the last call that received them            *)
(*   scanArgs, summaryArgs     the arguments of the last call on each      *)
(*                             table as they were passed (<<>>: no call)   *)
(*   scanThrew, summaryThrew   whether that call ended in a TypeError      *)
(*   overwrote                 whether the last call wrote a table that an *)
(*                             earlier call had filled                     *)
(***************************************************************************)
FmtIdle ==
  [key |-> "cagr", val |-> Undefined, out |-> Ret(""), table |-> "none",
   done |-> FALSE]

InitPage ==
  /\ scanTable = EmptyTable
  /\ summaryTable = EmptyTable
  /\ results = <<>>
  /\ data = <<>>
  /\ benchmark = NoBenchmark
  /\ scanArgs = <<>>
  /\ summaryArgs = <<>>
  /\ scanThrew = FALSE
  /\ summaryThrew = FALSE
  /\ overwrote = FALSE

Init == InitPage /\ fmtCall = FmtIdle

\* A renderScanTable call with argument rs has returned or thrown, leaving r.
ScanCallEnds(rs, r) ==
  /\ scanTable' = r.tbl
  /\ results' = r.results
  /\ scanArgs' = <<rs>>
  /\ scanThrew' = r.threw
  /\ overwrote' = (scanTable # EmptyTable)
  /\ UNCHANGED <<summaryTable, data, benchmark, summaryArgs, summaryThrew,
                 fmtCall>>

\* scanner_ui.js: renderScanTable(rs) on dom.scanSummaryTable
CallRenderScanTable ==
  \E rs \in ScanInputs : ScanCallEnds(rs, renderScanTable(scanTable, rs))

\* unnamed/part_000: renderScanTable(rs) on dom.scanSummaryTable
CallRenderScanTable_part000 ==
  \E rs \in ScanInputs :
    ScanCallEnds(rs, renderScanTable_part000(scanTable, rs))

\* A renderSummaryTable call with arguments d, b has returned or thrown.
SummaryCallEnds(d, b, r) ==
  /\ summaryTable' = r.tbl
  /\ data' = r.data
  /\ benchmark' = r.benchmark
  /\ summaryArgs' = <<[data |-> d, benchmark |-> b]>>
  /\ summaryThrew' = r.threw
  /\ overwrote' = (summaryTable # EmptyTable)
  /\ UNCHANGED <<scanTable, results, scanArgs, scanThrew, fmtCall>>

\* backtester_ui.js: renderSummaryTable(d, b) on dom.summaryTable
CallRenderSummaryTable ==
  \E d \in DataInputs, b \in BenchmarkPool :
    SummaryCallEnds(d, b, renderSummaryTable(summaryTable, d, b))

Next ==
  \/ CallRenderScanTable
  \/ CallRenderScanTable_part000
  \/ CallRenderSummaryTable

Spec == Init /\ [][Next]_vars

(***************************************************************************)
(* The formatters alone: one formatter applied to one value                *)
(***************************************************************************)
InitFmt ==
  /\ InitPage
  /\ fmtCall \in [key : KeySet, val : Values, out : {Ret("")},
                  table : {"FMT", "format", "fmt"}, done : {FALSE}]

ApplyFMT ==
  /\ fmtCall.table = "FMT" /\ ~fmtCall.done
  /\ fmtCall' = [fmtCall EXCEPT !.out = FMT(fmtCall.key, fmtCall.val),
                                !.done = TRUE]
  /\ UNCHANGED <<scanTable, summaryTable, results, data, benchmark, scanArgs,
                 summaryArgs, scanThrew, summaryThrew, overwrote>>

ApplyFormat ==
  /\ fmtCall.table = "format" /\ ~fmtCall.done
  /\ fmtCall' = [fmtCall EXCEPT !.out = format(fmtCall.key, fmtCall.val),
                                !.done = TRUE]
  /\ UNCHANGED <<scanTable, summaryTable, results, data, benchmark, scanArgs,
                 summaryArgs, scanThrew, summaryThrew, overwrote>>

ApplyFmt ==
  /\ fmtCall.table = "fmt" /\ ~fmtCall.done
  /\ fmtCall' = [fmtCall EXCEPT !.out = fmt(fmtCall.key, fmtCall.val),
                                !.done = TRUE]
  /\ UNCHANGED <<scanTable, summaryTable, results, data, benchmark, scanArgs,
                 summaryArgs, scanThrew, summaryThrew, overwrote>>

NextFmt == ApplyFMT \/ ApplyFormat \/ ApplyFmt

SpecFmt == InitFmt /\ [][NextFmt]_vars

(***************************************************************************)
(* Properties                                                              *)
(***************************************************************************)
EmDash == "\\u2014"

ScanRendered == Len(scanArgs) = 1
SummaryRendered == Len(summaryArgs) = 1

\* The rows of all tbodies of a table, in document order.
RECURSIVE Flatten(_)
Flatten(ss) == IF ss = <<>> THEN <<>> ELSE Head(ss) \o Flatten(Tail(ss))
BodyRows(tbl) == Flatten(tbl.tbodies)

\* The entries renderSummaryTable shows as columns: data, then the benchmark.
Columns(a) == a.data \o (IF a.benchmark.defined THEN <<a.benchmark>> ELSE <<>>)

\* A value the spec calls anomalous: missing, non-finite or null.
IsAnomaly(v) == v.t # "number"

\* The ways to write x / 10^5 rounded to d decimals, x an integer count of
\* units of 10^-5: the nearest decimal with d fractional digits (either
\* neighbour on a decimal tie), a zero with or without the sign of x.
Roundings(x, d) ==
  LET unit == Scale \div (10 ^ d)
      q == Abs(x) \div unit
      near == {r \in {q, q + 1} : 2 * Abs(r * unit - Abs(x)) <= unit}
  IN  {(IF x < 0 THEN "-" ELSE "") \o Decimal(r, d) : r \in near}
        \cup {Decimal(r, d) : r \in near \cap {0}}

\* C1: after every render call the grid is rectangular: every body row has
\* as many cells as the header row, which has 1 + number of metrics cells
\* in the scan table and 1 + number of entries (+ 1 with a benchmark) in the
\* summary table.
C1_Rectangular ==
  /\ ScanRendered =>
       /\ Len(scanTable.thead) = 1
       /\ Len(scanTable.thead[1].cells) = 1 + Len(METRICS)
       /\ \A i \in 1..Len(BodyRows(scanTable)) :
            Len(BodyRows(scanTable)[i].cells) = Len(scanTable.thead[1].cells)
  /\ SummaryRendered =>
       /\ Len(summaryTable.thead) = 1
       /\ Len(summaryTable.thead[1].cells) = 1 + Len(Columns(summaryArgs[1]))
       /\ \A j \in 1..Len(BodyRows(summaryTable)) :
            Len(BodyRows(summaryTable)[j].cells) = Len(summaryTable.thead[1].cells)

\* C2: in both tables, a cell whose value is undefined (key absent) shows
\* the placeholder and nothing a formatter produced.
C2_UndefinedPlaceholder ==
  /\ ScanRendered =>
       \A i \in 1..Len(BodyRows(scanTable)) : \A j \in 1..Len(METRICS) :
         (/\ 1 + j <= Len(BodyRows(scanTable)[i].cells)
          /\ scanArgs[1][i].m[METRICS[j].key] = Undefined)
         => BodyRows(scanTable)[i].cells[1 + j].text = EmDash
  /\ SummaryRendered =>
       \A j \in 1..Len(BodyRows(summaryTable)) :
         \A i \in 1..Len(Columns(summaryArgs[1])) :
           (/\ 1 + i <= Len(BodyRows(summaryTable)[j].cells)
            /\ Columns(summaryArgs[1])[i].m[metrics[j].key] = Undefined)
           => BodyRows(summaryTable)[j].cells[1 + i].text = EmDash

\* C3: no render call throws on finite, non-finite, null or undefined
\* values: it produces the full grid, and every missing, non-finite or null
\* value is shown as one of the two placeholders.
C3_NoAbort ==
  /\ ~scanThrew /\ ~summaryThrew
  /\ ScanRendered =>
       /\ Len(BodyRows(scanTable)) = Len(scanArgs[1])
       /\ \A i \in 1..Len(BodyRows(scanTable)) :
            /\ Len(BodyRows(scanTable)[i].cells) = 1 + Len(METRICS)
            /\ \A j \in 1..Len(METRICS) :
                 IsAnomaly(scanArgs[1][i].m[METRICS[j].key])
                 => BodyRows(scanTable)[i].cells[1 + j].text \in {EmDash, "N/A"}
  /\ SummaryRendered =>
       /\ Len(BodyRows(summaryTable)) = Len(metrics)
       /\ \A j \in 1..Len(BodyRows(summaryTable)) :
            /\ Len(BodyRows(summaryTable)[j].cells)
                 = 1 + Len(Columns(summaryArgs[1]))
            /\ \A i \in 1..Len(Columns(summaryArgs[1])) :
                 IsAnomaly(Columns(summaryArgs[1])[i].m[metrics[j].key])
                 => BodyRows(summaryTable)[j].cells[1 + i].text \in {EmDash, "N/A"}

\* C4: after any sequence of render calls, each table holds exactly what one
\* render of the last call's arguments produces on an empty table; nothing
\* of an earlier call survives.
C4_LastCallOnly ==
  /\ ScanRendered =>
       /\ scanTable = renderScanTable(EmptyTable, scanArgs[1]).tbl
       /\ scanTable = renderScanTable_part000(EmptyTable, scanArgs[1]).tbl
  /\ SummaryRendered =>
       summaryTable = renderSummaryTable(EmptyTable, summaryArgs[1].data,
                                         summaryArgs[1].benchmark).tbl

\* A second call has replaced a two-row scan table by a different one.
C4_Witness ==
  /\ overwrote /\ ScanRendered /\ ~SummaryRendered
  /\ Len(scanArgs[1]) = 2
  /\ Len(scanTable.thead) = 1
  /\ Len(BodyRows(scanTable)) = 2
  /\ scanTable = renderScanTable(EmptyTable, scanArgs[1]).tbl

\* C5: output order is input order with the benchmark last: the scan table
\* is the header "Ticker" + labels and one complete row per result, in
\* order; the summary table is the header corner + names (+ benchmark name)
\* and one complete row per metric, the benchmark's value last.
C5_InputOrder ==
  /\ ScanRendered =>
       /\ [j \in 1..Len(scanTable.thead[1].cells) |->
             scanTable.thead[1].cells[j].text]
            = <<"Ticker">> \o [j \in 1..Len(METRICS) |-> METRICS[j].label]
       /\ Len(BodyRows(scanTable)) = Len(scanArgs[1])
       /\ \A i \in 1..Len(BodyRows(scanTable)) :
            /\ Len(BodyRows(scanTable)[i].cells) = 1 + Len(METRICS)
            /\ BodyRows(scanTable)[i].cells[1].text
                 = scanArgs[1][i].ticker \o NoteOrEmpty(scanArgs[1][i].note)
            /\ \A j \in 1..Len(METRICS) :
                 LET v == scanArgs[1][i].m[METRICS[j].key]
                 IN  BodyRows(scanTable)[i].cells[1 + j].text
                       = IF v = Undefined THEN EmDash
                                          ELSE FMT(METRICS[j].key, v).text
  /\ SummaryRendered =>
       /\ [i \in 1..Len(summaryTable.thead[1].cells) |->
             summaryTable.thead[1].cells[i].text]
            = <<"\\u6307\\u6A19">> \o
              [i \in 1..Len(Columns(summaryArgs[1])) |->
                 Columns(summaryArgs[1])[i].name]
       /\ Len(BodyRows(summaryTable)) = Len(metrics)
       /\ \A j \in 1..Len(BodyRows(summaryTable)) :
            /\ Len(BodyRows(summaryTable)[j].cells)
                 = 1 + Len(Columns(summaryArgs[1]))
            /\ BodyRows(summaryTable)[j].cells[1].text = metrics[j].label
            /\ \A i \in 1..Len(Columns(summaryArgs[1])) :
                 BodyRows(summaryTable)[j].cells[1 + i].text
                   = format(metrics[j].key,
                            Columns(summaryArgs[1])[i].m[metrics[j].key]).text

\* C6: the formatters return exactly "N/A", without throwing, for every
\* non-finite sharpe_ratio, sortino_ratio and custom_score and for a null
\* beta and alpha, and never return "N/A" for a finite number.
C6_NullPolicy ==
  fmtCall.done =>
    /\ (fmtCall.key \in {"sharpe_ratio", "sortino_ratio", "custom_score"}
        /\ fmtCall.val \in NonFiniteValues) => fmtCall.out = Ret("N/A")
    /\ (fmtCall.key \in {"beta", "alpha"} /\ fmtCall.val = Null)
         => fmtCall.out = Ret("N/A")
    /\ fmtCall.val.t = "number"
         => ~fmtCall.out.throws /\ fmtCall.out.text # "N/A"

\* sharpe_ratio = Infinity has been formatted as "N/A".
C6_Witness ==
  /\ fmtCall.done /\ fmtCall.table = "FMT"
  /\ fmtCall.key = "sharpe_ratio" /\ fmtCall.val = PosInf
  /\ fmtCall.out = Ret("N/A")

\* C7: for a finite v, cagr, volatility, mdd and alpha give v*100 rounded to
\* 2 decimals followed by "%"; sharpe_ratio, sortino_ratio and beta give v
\* rounded to 2 decimals; custom_score gives v rounded to 4 decimals.
C7_Rounding ==
  (fmtCall.done /\ fmtCall.val.t = "number") =>
    /\ ~fmtCall.out.throws
    /\ fmtCall.key \in {"cagr", "volatility", "mdd", "alpha"} =>
         fmtCall.out.text \in {s \o "%" : s \in Roundings(fmtCall.val.n * 100, 2)}
    /\ fmtCall.key \in {"sharpe_ratio", "sortino_ratio", "beta"} =>
         fmtCall.out.text \in Roundings(fmtCall.val.n, 2)
    /\ fmtCall.key = "custom_score" =>
         fmtCall.out.text \in Roundings(fmtCall.val.n, 4)

\* cagr = 0.1534 has been formatted as "15.34%".
C7_Witness ==
  /\ fmtCall.done /\ fmtCall.table = "format"
  /\ fmtCall.key = "cagr" /\ fmtCall.val = Num(15340, 1, 1)
  /\ fmtCall.out = Ret("15.34%")

\* C8: a render call leaves its arguments as they were passed and changes
\* no table but its own.
C8_InputsUnchanged ==
  [][/\ (scanArgs' # <<>> => results' = scanArgs'[1])
     /\ (summaryArgs' # <<>> => /\ data' = summaryArgs'[1].data
                                /\ benchmark' = summaryArgs'[1].benchmark)
     /\ (scanArgs' # scanArgs \/ scanTable' # scanTable)
          => (summaryTable' = summaryTable /\ data' = data
              /\ benchmark' = benchmark)
     /\ (summaryArgs' # summaryArgs \/ summaryTable' # summaryTable)
          => (scanTable' = scanTable /\ results' = results)]_vars

\* renderScanTable has rendered two different rows and the caller's array
\* still holds them in the order passed.
C8_Witness ==
  /\ ScanRendered /\ Len(scanArgs[1]) = 2
  /\ scanArgs[1][1] # scanArgs[1][2]
  /\ Len(BodyRows(scanTable)) = 2
  /\ results = scanArgs[1]

\* C9: the first cell of each scan body row is the ticker directly followed
\* by the note, and the ticker alone when the note is undefined, null or
\* empty.
C9_TickerNote ==
  ScanRendered =>
    \A i \in 1..Len(BodyRows(scanTable)) :
      LET r == scanArgs[1][i]
      IN  BodyRows(scanTable)[i].cells[1].text =
            IF r.note.t = "string" THEN r.ticker \o r.note.s ELSE r.ticker

\* A row with a note and a row without one have been rendered.
C9_Witness ==
  /\ ScanRendered /\ Len(BodyRows(scanTable)) = 2
  /\ scanArgs[1][1].note = Str("*")
  /\ BodyRows(scanTable)[1].cells[1].text = "AAPL*"
  /\ scanArgs[1][2].note = NoteUndefined
  /\ BodyRows(scanTable)[2].cells[1].text = "MSFT"

\* The cell renderScanTable writes for value v of metric key.
ScanCellFor(key, v) ==
  IF v = Undefined THEN Cell("td", "px-4 py-1 text-center", "", EmDash)
  ELSE IF FMT(key, v).throws THEN EmptyCell
  ELSE Cell("td", "px-4 py-1 text-center", "", FMT(key, v).text)

\* C10: the two copies of renderScanTable build the same table, and
\* renderSummaryTable writes for every key and value the cell that
\* renderScanTable writes for it.
C10_SamePolicy ==
  /\ ScanRendered =>
       renderScanTable(EmptyTable, scanArgs[1])
         = renderScanTable_part000(EmptyTable, scanArgs[1])
  /\ SummaryRendered =>
       \A j \in 1..Len(BodyRows(summaryTable)) :
         \A i \in 1..Len(Columns(summaryArgs[1])) :
           1 + i <= Len(BodyRows(summaryTable)[j].cells) =>
             LET v == Columns(summaryArgs[1])[i].m[metrics[j].key]
             IN  BodyRows(summaryTable)[j].cells[1 + i]
                   = ScanCellFor(metrics[j].key, v)

====
